---- MODULE Spec2Model ----
(***************************************************************************)
(* Model of cmd/cli/cmds/rum.go: the "ls-actions" command.                 *)
(*                                                                         *)
(* Go strings are TLA+ strings; a Go map[string]interface{} is a function  *)
(* whose domain is the set of its keys; an interface{} value is a tagged   *)
(* record (kind "nil", "str", "num" or "map").  The iteration order of a   *)
(* Go map is not defined by the language, so every `range` over a map is   *)
(* a nondeterministic choice of the next key.  The working map of          *)
(* collectContextColumns only ever holds nil values; it is kept as the bag *)
(* of its keys, which the map assignment keeps free of repetitions.        *)
(* The context of an Action is nil or a mapping (the type assertion of     *)
(* flattenActions panics on anything else).                                *)
(***************************************************************************)
EXTENDS Integers, Sequences, FiniteSets, Bags, TLC

VARIABLES
    pc,               \* position in listActionsCmd.Run
    stream,           \* the events the paginated search will supply (input)
    events,           \* the events channel: what is still to be received
    count,            \* --count
    output,           \* --output
    fields,           \* --fields, split on ","
    filters,          \* --filter, split on ","
    i,                \* loop counter of the fetch loop
    actions,          \* []Action collected by the fetch loop
    jsonOut,          \* the entries printed by the json branch
    flattenedActions, \* result of flattenActions
    rowIdx,           \* collectContextColumns: index of the row being ranged
    pending,          \* collectContextColumns: keys of that row not yet visited
    ret,              \* collectContextColumns: the working map, as the bag of its keys
    retPending,       \* collectContextColumns: entries of ret not yet visited
    keys,             \* collectContextColumns: the slice being returned
    columns,          \* the ColumnSet returned to Run
    headers,          \* table headers
    table             \* table rows added so far

vars == <<pc, stream, events, count, output, fields, filters, i, actions,
          jsonOut, flattenedActions, rowIdx, pending, ret, retPending, keys,
          columns, headers, table>>

-----------------------------------------------------------------------------
(* Bounds of the model *)

MaxEvents == 2      \* longest event stream
MaxCount == 2       \* largest --count
MaxPatterns == 2    \* most patterns in fields and filters together

-----------------------------------------------------------------------------
(* Values: interface{} *)

EmptyMap == [k \in {} |-> 0]

NilV == [kind |-> "nil", str |-> "", num |-> 0, sub |-> EmptyMap]
Str(s) == [kind |-> "str", str |-> s, num |-> 0, sub |-> EmptyMap]
Num(n) == [kind |-> "num", str |-> "", num |-> n, sub |-> EmptyMap]
Map(m) == [kind |-> "map", str |-> "", num |-> 0, sub |-> m]

\* m[key] = v on a Go map
Put(m, key, v) == [k \in DOMAIN m \cup {key} |-> IF k = key THEN v ELSE m[k]]

\* strings.HasPrefix(s, prefix)
HasPrefix(s, prefix) ==
    Len(s) >= Len(prefix) /\ SubSeq(s, 1, Len(prefix)) = prefix

\* strings.HasSuffix(s, suffix)
HasSuffix(s, suffix) ==
    Len(s) >= Len(suffix) /\ SubSeq(s, Len(s) - Len(suffix) + 1, Len(s)) = suffix

\* fmt.Sprintf("%s.%s", key, k)
JoinKey(key, k) == key \o "." \o k

\* fmt.Sprintf("%v", v) for the scalars of the model
SprintfV(v) ==
    CASE v.kind = "str" -> v.str
      [] v.kind = "num" -> ToString(v.num)
      [] v.kind = "nil" -> "<nil>"

-----------------------------------------------------------------------------
(* flattenMapIntoColumns, flattenActions *)

\* PutPrefixed re-keying with the child key alone (the ancestor is dropped)
PutPrefixedDropsPath(r, key, sub) ==
    [c \in DOMAIN r \cup DOMAIN sub |-> IF c \in DOMAIN sub THEN sub[c] ELSE r[c]]

\* for k, v := range sub { ret[key.k] = v }: the targets are pairwise
\* distinct, so the order of this inner range does not matter.
PutPrefixed(r, key, sub) ==
    [c \in DOMAIN r \cup {JoinKey(key, k) : k \in DOMAIN sub} |->
        IF \E k \in DOMAIN sub : c = JoinKey(key, k)
        THEN sub[CHOOSE k \in DOMAIN sub : c = JoinKey(key, k)]
        ELSE r[c]]

RECURSIVE flattenMapIntoColumns(_)
RECURSIVE FlattenRange(_, _, _)

\* The body of `for key, value := range rows`, from the keys still to visit
\* and the map built so far: the set of maps the loop may end with.
FlattenRange(rows, todo, r) ==
    IF todo = {} THEN {r}
    ELSE UNION {
        LET value == rows[key] IN
        IF value.kind = "map"
        THEN UNION { FlattenRange(rows, todo \ {key}, PutPrefixed(r, key, sub)) :
                     sub \in flattenMapIntoColumns(value.sub) }
        ELSE FlattenRange(rows, todo \ {key}, Put(r, key, value))
        : key \in todo }

\* The set of maps flattenMapIntoColumns(rows) may return.
flattenMapIntoColumns(rows) == FlattenRange(rows, DOMAIN rows, EmptyMap)

\* for k, v := range flat { row[k] = v }
PutAll(row, flat) ==
    [k \in DOMAIN row \cup DOMAIN flat |->
        IF k \in DOMAIN flat THEN flat[k] ELSE row[k]]

\* The rows one Action may flatten to (body of the loop of flattenActions).
FlattenAction(action) ==
    LET row == Put(EmptyMap, "name", Str(action.Name)) IN
    IF action.Context.kind # "nil"
    THEN { PutAll(row, flat) : flat \in flattenMapIntoColumns(action.Context.sub) }
    ELSE { row }

\* The lists flattenActions(acts) may return.
flattenActions(acts) ==
    { s \in [1..Len(acts) -> UNION { FlattenAction(acts[n]) : n \in 1..Len(acts) }] :
        \A n \in 1..Len(acts) : s[n] \in FlattenAction(acts[n]) }

-----------------------------------------------------------------------------
(* collectContextColumns *)

RECURSIVE FilterHit(_, _)

\* FilterHit comparing a prefix pattern without its trailing separator
FilterHitTrimmed(key, fs) ==
    IF fs = <<>> THEN FALSE
    ELSE LET filter == Head(fs) IN
         IF HasSuffix(filter, ".")
         THEN IF HasPrefix(key, SubSeq(filter, 1, Len(filter) - 1))
              THEN TRUE ELSE FilterHit(key, Tail(fs))
         ELSE IF key = filter THEN TRUE ELSE FilterHit(key, Tail(fs))

\* FilterHit leaving the loop after the first filter
FilterHitFirstOnly(key, fs) ==
    IF fs = <<>> THEN FALSE
    ELSE LET filter == Head(fs) IN
         IF HasSuffix(filter, ".")
         THEN HasPrefix(key, filter)
         ELSE key = filter

\* The filter loop: TRUE iff it ends in `continue Keys`.
FilterHit(key, fs) ==
    IF fs = <<>> THEN FALSE
    ELSE LET filter == Head(fs) IN
         IF HasSuffix(filter, ".")
         THEN IF HasPrefix(key, filter) THEN TRUE ELSE FilterHit(key, Tail(fs))
         ELSE IF key = filter THEN TRUE ELSE FilterHit(key, Tail(fs))

\* RetAssign adding an entry on every assignment, as an append would
RetAssignAppends(r, key) == r (+) SetToBag({key})

\* ret[key] = nil: a map holds a key once, so assigning to a key that is
\* already present adds no entry.
RetAssign(r, key) == IF BagIn(key, r) THEN r ELSE r (+) SetToBag({key})

RECURSIVE FieldLoop(_, _, _)
\* The field loop: the working map after testing key against every field.
FieldLoop(r, key, fs) ==
    IF fs = <<>> THEN r
    ELSE LET field == Head(fs) IN
         IF HasSuffix(field, ".")
         THEN IF HasPrefix(key, field)
              THEN FieldLoop(RetAssign(r, key), key, Tail(fs))
              ELSE FieldLoop(r, key, Tail(fs))
         ELSE IF key = field
              THEN FieldLoop(RetAssign(r, key), key, Tail(fs))
              ELSE FieldLoop(r, key, Tail(fs))

\* ProcessKey testing the fields before the filters
ProcessKeyFieldsFirst(r, key, flds, flts) ==
    IF key # "name"
    THEN IF Len(flds) > 0 /\ FieldLoop(EmptyBag, key, flds) # EmptyBag
         THEN RetAssign(r, key)
         ELSE IF Len(flts) > 0 /\ FilterHit(key, flts)
              THEN r
              ELSE IF Len(flds) > 0 THEN r ELSE RetAssign(r, key)
    ELSE r

\* ProcessKey without the test key != "name"
ProcessKeyNoNameCheck(r, key, flds, flts) ==
    IF Len(flts) > 0 /\ FilterHit(key, flts)
    THEN r
    ELSE IF Len(flds) > 0
         THEN FieldLoop(r, key, flds)
         ELSE RetAssign(r, key)

\* The body of `for key := range row`: the working map after one key.
ProcessKey(r, key, flds, flts) ==
    IF key # "name"
    THEN IF Len(flts) > 0 /\ FilterHit(key, flts)
         THEN r
         ELSE IF Len(flds) > 0
              THEN FieldLoop(r, key, flds)
              ELSE RetAssign(r, key)
    ELSE r

-----------------------------------------------------------------------------
(* Table rows *)

RECURSIVE RowCells(_, _)

\* RowCells appending a cell only when the action has the column
RowCellsSkipMissing(action, cols) ==
    IF cols = <<>> THEN <<>>
    ELSE LET column == Head(cols) IN
         IF column \in DOMAIN action
         THEN <<SprintfV(action[column])>> \o RowCells(action, Tail(cols))
         ELSE RowCells(action, Tail(cols))

\* for _, column := range columns { ... row = append(row, s) }
RowCells(action, cols) ==
    IF cols = <<>> THEN <<>>
    ELSE LET column == Head(cols)
             s == IF column \in DOMAIN action THEN SprintfV(action[column]) ELSE ""
         IN <<s>> \o RowCells(action, Tail(cols))

\* The row built for one flattened action.
TableRow(action, cols) == <<action["name"]>> \o RowCells(action, cols)

-----------------------------------------------------------------------------
(* Inputs *)

SeqsUpTo(S, n) == UNION { [1..k -> S] : k \in 0..n }

Event(name, context) == [hasAction |-> TRUE, name |-> name, context |-> context]
\* an event whose attributes carry no "action" mapping; also the zero value
\* received from the closed channel
NoActionEvent == [hasAction |-> FALSE, name |-> "", context |-> NilV]

CtxA == Map([page |-> Map([url |-> Str("/a")])])
CtxB == Map([page |-> Map([url |-> Str("/b")]),
             device |-> Map([type |-> Str("mobile")])])
CtxDeep == Map([a |-> Map([b |-> Map([c |-> Num(1)])])])
CtxCollide == Map(Put(Put(EmptyMap, "a.b", Num(1)), "a", Map([b |-> Num(2)])))
CtxName == Map([name |-> Str("other"), id |-> NilV])
CtxEmptyNested == Map([a |-> Map(EmptyMap), b |-> Num(3)])
CtxPage == Map([page |-> Str("home"), pageviews |-> Num(3),
                device |-> Map([type |-> Str("mobile")])])
CtxRef == Map([page |-> Map([url |-> Str("/a"), referrer |-> NilV]),
               pageviews |-> Num(3)])

\* events for the flattening cases
FlattenEvents ==
    { Event("click", c) :
        c \in {NilV, Map(EmptyMap), CtxA, CtxDeep, CtxCollide, CtxName,
               CtxEmptyNested} }
    \cup {Event("scroll", CtxB), NoActionEvent}

\* events for the column cases
ColumnEvents ==
    {Event("click", CtxA), Event("click", CtxB), Event("view", CtxPage),
     Event("view", CtxRef)}

Patterns == {"page.", "page", "page.url", "device."}

Outputs == {"json", "table", "csv"}

-----------------------------------------------------------------------------
(* State machine *)

Init ==
    /\ \/ /\ stream \in SeqsUpTo(FlattenEvents, MaxEvents)
          /\ count \in 0..MaxCount
          /\ output \in Outputs
          /\ fields = <<>>
          /\ filters = <<>>
       \/ /\ stream \in SeqsUpTo(ColumnEvents, MaxEvents)
          /\ count = MaxCount
          /\ output = "table"
          /\ fields \in SeqsUpTo(Patterns, MaxPatterns)
          /\ filters \in SeqsUpTo(Patterns, MaxPatterns)
          /\ Len(fields) + Len(filters) <= MaxPatterns
    /\ events = stream
    /\ pc = "fetch"
    /\ i = 0
    /\ actions = <<>>
    /\ jsonOut = <<>>
    /\ flattenedActions = <<>>
    /\ rowIdx = 0
    /\ pending = {}
    /\ ret = EmptyBag
    /\ retPending = EmptyBag
    /\ keys = <<>>
    /\ columns = <<>>
    /\ headers = <<>>
    /\ table = <<>>

\* One iteration of `for i := 0; i < count; i++`: receive an event (the zero
\* value once the channel is closed) and keep it if it has an action.
FetchEvent ==
    /\ pc = "fetch"
    /\ i < count
    /\ LET e == IF events = <<>> THEN NoActionEvent ELSE Head(events) IN
       /\ events' = IF events = <<>> THEN events ELSE Tail(events)
       /\ actions' = IF e.hasAction
                     THEN Append(actions, [Name |-> e.name, Context |-> e.context])
                     ELSE actions
    /\ i' = i + 1
    /\ UNCHANGED <<pc, stream, count, output, fields, filters, jsonOut,
                   flattenedActions, rowIdx, pending, ret, retPending, keys,
                   columns, headers, table>>

\* The fetch loop ends.
FetchDone ==
    /\ pc = "fetch"
    /\ ~(i < count)
    /\ pc' = "output"
    /\ UNCHANGED <<stream, events, count, output, fields, filters, i, actions,
                   jsonOut, flattenedActions, rowIdx, pending, ret, retPending,
                   keys, columns, headers, table>>

\* output == "json": the action list is marshalled, one entry per action.
OutputJson ==
    /\ pc = "output"
    /\ output = "json"
    /\ jsonOut' = actions
    /\ pc' = "done"
    /\ UNCHANGED <<stream, events, count, output, fields, filters, i, actions,
                   flattenedActions, rowIdx, pending, ret, retPending, keys,
                   columns, headers, table>>

\* output == "csv" (and anything else): nothing is printed.
OutputOther ==
    /\ pc = "output"
    /\ output # "json"
    /\ output # "table"
    /\ pc' = "done"
    /\ UNCHANGED <<stream, events, count, output, fields, filters, i, actions,
                   jsonOut, flattenedActions, rowIdx, pending, ret, retPending,
                   keys, columns, headers, table>>

\* output == "table": flattenActions(actions), then collectContextColumns starts.
OutputTable ==
    /\ pc = "output"
    /\ output = "table"
    /\ flattenedActions' \in flattenActions(actions)
    /\ ret' = EmptyBag
    /\ rowIdx' = 0
    /\ pending' = {}
    /\ pc' = "rows"
    /\ UNCHANGED <<stream, events, count, output, fields, filters, i, actions,
                   jsonOut, retPending, keys, columns, headers, table>>

\* for _, row := range rows: enter the next row.
CollectRow ==
    /\ pc = "rows"
    /\ rowIdx < Len(flattenedActions)
    /\ rowIdx' = rowIdx + 1
    /\ pending' = DOMAIN flattenedActions[rowIdx + 1]
    /\ pc' = "keys"
    /\ UNCHANGED <<stream, events, count, output, fields, filters, i, actions,
                   jsonOut, flattenedActions, ret, retPending, keys, columns,
                   headers, table>>

\* for key := range row: visit one more key of the row, in any order.
CollectKey ==
    /\ pc = "keys"
    /\ \E key \in pending :
        /\ ret' = ProcessKey(ret, key, fields, filters)
        /\ pending' = pending \ {key}
    /\ UNCHANGED <<pc, stream, events, count, output, fields, filters, i,
                   actions, jsonOut, flattenedActions, rowIdx, retPending, keys,
                   columns, headers, table>>

\* The range over the row's keys is exhausted.
CollectRowDone ==
    /\ pc = "keys"
    /\ pending = {}
    /\ pc' = "rows"
    /\ UNCHANGED <<stream, events, count, output, fields, filters, i, actions,
                   jsonOut, flattenedActions, rowIdx, pending, ret, retPending,
                   keys, columns, headers, table>>

\* All rows are done: var keys []string, and the range over ret starts.
CollectRowsDone ==
    /\ pc = "rows"
    /\ ~(rowIdx < Len(flattenedActions))
    /\ keys' = <<>>
    /\ retPending' = ret
    /\ pc' = "ret"
    /\ UNCHANGED <<stream, events, count, output, fields, filters, i, actions,
                   jsonOut, flattenedActions, rowIdx, pending, ret, columns,
                   headers, table>>

\* for k := range ret { keys = append(keys, k) }: one key, in any order.
AppendKey ==
    /\ pc = "ret"
    /\ \E k \in BagToSet(retPending) :
        /\ keys' = Append(keys, k)
        /\ retPending' = retPending (-) SetToBag({k})
    /\ UNCHANGED <<pc, stream, events, count, output, fields, filters, i,
                   actions, jsonOut, flattenedActions, rowIdx, pending, ret,
                   columns, headers, table>>

\* return keys; Run adds the headers "name" and the columns.
ReturnKeys ==
    /\ pc = "ret"
    /\ retPending = EmptyBag
    /\ columns' = keys
    /\ headers' = <<"name">> \o keys
    /\ table' = <<>>
    /\ pc' = "render"
    /\ UNCHANGED <<stream, events, count, output, fields, filters, i, actions,
                   jsonOut, flattenedActions, rowIdx, pending, ret, retPending,
                   keys>>

\* for _, action := range flattenedActions: build and add one row.
AddRow ==
    /\ pc = "render"
    /\ Len(table) < Len(flattenedActions)
    /\ table' = Append(table, TableRow(flattenedActions[Len(table) + 1], columns))
    /\ UNCHANGED <<pc, stream, events, count, output, fields, filters, i,
                   actions, jsonOut, flattenedActions, rowIdx, pending, ret,
                   retPending, keys, columns, headers>>

\* table.Render()
Render ==
    /\ pc = "render"
    /\ ~(Len(table) < Len(flattenedActions))
    /\ pc' = "done"
    /\ UNCHANGED <<stream, events, count, output, fields, filters, i, actions,
                   jsonOut, flattenedActions, rowIdx, pending, ret, retPending,
                   keys, columns, headers, table>>

Next ==
    \/ FetchEvent
    \/ FetchDone
    \/ OutputJson
    \/ OutputOther
    \/ OutputTable
    \/ CollectRow
    \/ CollectKey
    \/ CollectRowDone
    \/ CollectRowsDone
    \/ AppendKey
    \/ ReturnKeys
    \/ AddRow
    \/ Render

Spec == Init /\ [][Next]_vars

-----------------------------------------------------------------------------
(* Vocabulary of the properties *)

Range(s) == { s[n] : n \in 1..Len(s) }

\* the keys occurring in at least one flattened record
RecordKeys == UNION { DOMAIN flattenedActions[n] : n \in 1..Len(flattenedActions) }

\* collectContextColumns has returned
ColumnsComputed == pc = "render" \/ (pc = "done" /\ output = "table")

\* the pattern ends in the separator
EndsInSeparator(p) == Len(p) > 0 /\ SubSeq(p, Len(p), Len(p)) = "."

\* key = p followed by some (possibly empty) text
StartsWith(key, p) == \E n \in 0..Len(key) : SubSeq(key, 1, n) = p

\* the matching rule of the patterns
PatternMatches(p, key) ==
    IF EndsInSeparator(p) THEN StartsWith(key, p) ELSE key = p

RECURSIVE LeafPaths(_)
\* the dot-joined full paths of the non-mapping leaves of a mapping
LeafPaths(m) ==
    UNION { IF m[k].kind = "map"
            THEN { k \o "." \o p : p \in LeafPaths(m[k].sub) }
            ELSE { k }
          : k \in DOMAIN m }

ContextLeafPaths(ctx) == IF ctx.kind = "map" THEN LeafPaths(ctx.sub) ELSE {}

\* the reorderings of a list
PermsOf(s) ==
    { [n \in 1..Len(s) |-> s[p[n]]] :
        p \in { q \in [1..Len(s) -> 1..Len(s)] : Range(q) = 1..Len(s) } }

\* the column names decided key by key, from a set of keys
ColumnNames(ks, flds, flts) ==
    { k \in ks : BagIn(k, ProcessKey(EmptyBag, k, flds, flts)) }

-----------------------------------------------------------------------------
(* Properties *)

\* C1: every flattened record maps "name" to the name of its Record, also
\* when the top level of the context has a key "name".
C1_NameIsRecordName ==
    \A n \in 1..Len(flattenedActions) :
        flattenedActions[n]["name"] = Str(actions[n].Name)

\* C2: the key set of a flattened record is exactly {"name"} united with the
\* dot-joined full paths of the non-mapping leaves of the context: no key for
\* an intermediate or empty mapping, and only "name" for an absent context.
C2_KeySetIsLeafPaths ==
    \A n \in 1..Len(flattenedActions) :
        DOMAIN flattenedActions[n] =
            {"name"} \cup ContextLeafPaths(actions[n].Context)

C2_Witness ==
    /\ Len(flattenedActions) = 2
    /\ actions[1].Context = CtxDeep
    /\ DOMAIN flattenedActions[1] = {"name", "a.b.c"}
    /\ actions[2].Context = NilV
    /\ DOMAIN flattenedActions[2] = {"name"}

\* C3: flattening is deterministic: whatever the iteration order of the
\* context's mappings, a Record flattens to one and the same record, also
\* when a literal key equals a dotted path generated from nesting.
C3_FlattenDeterministic ==
    \A n \in 1..Len(flattenedActions) :
        FlattenAction(actions[n]) = { flattenedActions[n] }

\* C4: exclusion precedence: no key matched by at least one filter pattern is
\* ever among the collected columns, whatever the field patterns match.
C4_ExclusionPrecedence ==
    \A k \in BagToSet(ret) \cup Range(keys) \cup Range(columns) :
        ~ \E n \in 1..Len(filters) : PatternMatches(filters[n], k)

C4_Witness ==
    /\ pc = "done"
    /\ filters = <<"page.">>
    /\ fields = <<"page.url">>
    /\ "page.url" \in RecordKeys
    /\ "page.url" \notin Range(columns)

\* C5: the matching rule is the same for field and filter patterns: a pattern
\* ending in "." matches the keys that start with the whole pattern, any other
\* pattern matches the key equal to it.  Observed with a single pattern: as the
\* only filter it removes exactly the keys it matches, as the only field it
\* keeps exactly the keys it matches.
C5_PatternRule ==
    ColumnsComputed =>
        /\ (Len(filters) = 1 /\ fields = <<>>) =>
               \A k \in RecordKeys \ {"name"} :
                   (k \notin Range(columns)) <=> PatternMatches(filters[1], k)
        /\ (Len(fields) = 1 /\ filters = <<>>) =>
               \A k \in RecordKeys \ {"name"} :
                   (k \in Range(columns)) <=> PatternMatches(fields[1], k)

C5_Witness ==
    /\ pc = "done"
    /\ filters = <<"page.">>
    /\ fields = <<>>
    /\ {"page.url", "page.referrer", "pageviews", "page"} \subseteq RecordKeys
    /\ Range(columns) = {"pageviews", "page", "device.type"}

\* C6: inclusion rule: a key other than "name" that occurs in a record and is
\* matched by no filter is a column iff fields is empty or a field matches it;
\* with no fields and no filters the columns are all the non-"name" keys; the
\* columns never hold "name" nor a key of no record.
C6_InclusionRule ==
    ColumnsComputed =>
        /\ \A k \in RecordKeys \ {"name"} :
               (~ \E n \in 1..Len(filters) : PatternMatches(filters[n], k)) =>
                   ( k \in Range(columns) <=>
                       \/ fields = <<>>
                       \/ \E n \in 1..Len(fields) : PatternMatches(fields[n], k) )
        /\ (fields = <<>> /\ filters = <<>>) =>
               Range(columns) = RecordKeys \ {"name"}
        /\ "name" \notin Range(columns)
        /\ Range(columns) \subseteq RecordKeys

C6_Witness ==
    /\ pc = "done"
    /\ fields = <<"page.url">>
    /\ filters = <<"device.">>
    /\ {"page.url", "page.referrer", "pageviews", "device.type"} \subseteq RecordKeys
    /\ columns = <<"page.url">>

\* C7: the returned sequence holds no column name twice, also when a key
\* occurs in several records or is matched by several field patterns.
C7_NoDuplicateColumns ==
    /\ \A a, b \in 1..Len(keys) : keys[a] = keys[b] => a = b
    /\ \A a, b \in 1..Len(columns) : columns[a] = columns[b] => a = b

C7_Witness ==
    /\ pc = "done"
    /\ fields = <<"page.", "page.url">>
    /\ Len(flattenedActions) = 2
    /\ "page.url" \in DOMAIN flattenedActions[1]
    /\ "page.url" \in DOMAIN flattenedActions[2]
    /\ columns = <<"page.url">>

\* C8: one row per record, in record order; a row has 1 + |columns| cells, the
\* first the record's "name" entry, the cell of column c the record's value
\* for c (as %v prints it) if the record has c and "" otherwise, in the order
\* of the header columns.
C8_TableRows ==
    /\ Len(table) <= Len(flattenedActions)
    /\ (pc = "done" /\ output = "table") => Len(table) = Len(flattenedActions)
    /\ \A n \in 1..Len(table) :
        /\ Len(table[n]) = 1 + Len(columns)
        /\ Len(headers) = 1 + Len(columns)
        /\ headers[1] = "name"
        /\ table[n][1] = flattenedActions[n]["name"]
        /\ \A c \in 1..Len(columns) :
            /\ headers[c + 1] = columns[c]
            /\ table[n][c + 1] =
                 IF columns[c] \in DOMAIN flattenedActions[n]
                 THEN SprintfV(flattenedActions[n][columns[c]])
                 ELSE ""

C8_Witness ==
    /\ pc = "done"
    /\ stream = <<Event("click", CtxA), Event("click", CtxB)>>
    /\ fields = <<>>
    /\ filters = <<"device.">>
    /\ table = << <<Str("click"), "/a">>, <<Str("click"), "/b">> >>

\* C9: when the stream supplies at least count events, the fetch loop ends
\* with exactly count actions collected.
C9_CountResults ==
    (pc # "fetch" /\ Len(stream) >= count) => Len(actions) = count

\* C10: the set of column names does not depend on the order of the records,
\* of the keys of a record, or of the entries of fields and of filters: for
\* every reordering of fields and of filters it is the set decided key by key
\* over the set of keys occurring in the records.
C10_ColumnSetOrderInvariant ==
    ColumnsComputed =>
        \A f \in PermsOf(fields), g \in PermsOf(filters) :
            Range(columns) = ColumnNames(RecordKeys, f, g)

C10_Witness ==
    /\ pc = "done"
    /\ fields = <<>>
    /\ filters = <<"page.", "device.">>
    /\ Len(flattenedActions) = 2
    /\ "page.url" \in DOMAIN flattenedActions[1]
    /\ "device.type" \in DOMAIN flattenedActions[2]
    /\ DOMAIN flattenedActions[1] # DOMAIN flattenedActions[2]
    /\ Range(columns) = {"pageviews", "page"}

====
